---- MODULE Spec2Model ----
(***************************************************************************)
(* Customer hierarchy manager: the customer store (useCustomerData), the   *)
(* page that routes the form and the importer to it (App), the customer    *)
(* form (CustomerForm) and the CSV import resolver (ImportCustomers).      *)
(*                                                                         *)
(* Strings are modelled by string literals; the string functions the code  *)
(* uses (trim, toLowerCase, template interpolation) are operators over the *)
(* literals of the model.  Date.now() reads the clock now, which advances  *)
(* with every store operation.                                             *)
(*                                                                         *)
(* Spec runs whole user sessions (create, edit, delete, import) from the   *)
(* empty list.  SpecForm and SpecImport run the form and the import view   *)
(* handler by handler over customers that Spec reaches.  SpecCreate runs   *)
(* creates under a wall clock that can repeat, SpecValidate applies        *)
(* validate to bounded candidates, SpecStore calls the store operations    *)
(* directly, and SpecResolve resolves and commits batches of three rows.   *)
(***************************************************************************)
EXTENDS Integers, Sequences, FiniteSets, TLC

\* ------------------------------------------------------------------ bounds
MaxCustomers == 3
MaxRows == 2
MaxTime == 3
MaxImports == 1
MaxFormOps == 1
MaxList == 2
MaxStoreOps == 2
MaxBatch == 3

\* ------------------------------------------------------------------ values
PARENT == "PARENT"
DIRECT == "DIRECT"

\* An absent optional value.  JavaScript's null and undefined are one value here:
\* the code reads parentId by truthiness and by === against an id only, and the
\* persisted JSON does not keep the difference.
Null == "null"
Undefined == Null

\* JavaScript truthiness of a string-or-null-or-undefined value.
Truthy(x) == x \notin {Null, ""}

\* String.prototype.trim over the strings of the model (" " is the blank one).
Trim(s) == IF s = " " THEN "" ELSE s

\* `x?.trim()` followed by `!!`.
TruthyTrim(x) == IF x = Undefined THEN FALSE ELSE Trim(x) # ""

\* String.prototype.toLowerCase over the names of the model.
ToLowerCase(s) ==
  CASE s = "Acme" -> "acme"
    [] s = "ACME" -> "acme"
    [] s = "Bolt" -> "bolt"
    [] s = "Zed" -> "zed"
    [] OTHER -> s

\* ------------------------------------------------------------------ sequences
Range(s) == {s[i] : i \in DOMAIN s}

Map(s, Op(_)) == [i \in DOMAIN s |-> Op(s[i])]

Count(s, Test(_)) == Cardinality({i \in DOMAIN s : Test(s[i])})

Some(s, Test(_)) == \E i \in DOMAIN s : Test(s[i])

RECURSIVE Flatten(_)
Flatten(ss) == IF ss = << >> THEN << >> ELSE Head(ss) \o Flatten(Tail(ss))

\* ------------------------------------------------------------------ state
VARIABLES
  customers,          \* useCustomerData: the customers array
  currentView,        \* App: 'LIST' | 'CREATE' | 'EDIT' | 'IMPORT'
  selectedCustomerId, \* App: the customer being edited, or Null
  formData,           \* CustomerForm: the candidate being edited
  linkedChildIds,     \* CustomerForm: the ids to link as children
  errors,             \* CustomerForm: the messages of the last failed submit
  file,               \* ImportCustomers: the data lines of the chosen file
  processedData,      \* ImportCustomers: the resolver's last result
  now,                \* the environment's clock: the reading of Date.now(), in ms
  lastOp              \* history: the store operation of the last step, its arguments
                      \* and the array before it

vars == <<customers, currentView, selectedCustomerId, formData, linkedChildIds,
          errors, file, processedData, now, lastOp>>

\* ------------------------------------------------------------------ validation (useCustomerData)
Msg(m, i, a) == [msg |-> m, idx |-> i, arg |-> a]

\* A faulty variant: the record under validation is not excluded.
checkAccountNumberUnique_NoExclude(custs, accountNumber, excludeId) ==
  ~ Some(custs, LAMBDA c : c.accountNumber = accountNumber)

checkAccountNumberUnique(custs, accountNumber, excludeId) ==
  ~ Some(custs, LAMBDA c : c.accountNumber = accountNumber /\ c.id # excludeId)

AddressErrors(addr, idx) ==
  LET hasStreet == TruthyTrim(addr.street)
      hasLatLong == TruthyTrim(addr.latitude) /\ TruthyTrim(addr.longitude)
  IN    (IF ~hasStreet /\ ~hasLatLong THEN <<Msg("AddressStreetOrLatLong", idx, "")>> ELSE << >>)
     \o (IF Trim(addr.city) = "" THEN <<Msg("AddressCityRequired", idx, "")>> ELSE << >>)
     \o (IF Trim(addr.state) = "" THEN <<Msg("AddressStateRequired", idx, "")>> ELSE << >>)
     \o (IF Trim(addr.zipCode) = "" THEN <<Msg("AddressZipRequired", idx, "")>> ELSE << >>)

ContactErrors(c, idx) ==
        (IF Trim(c.name) = "" THEN <<Msg("ContactNameRequired", idx, "")>> ELSE << >>)
     \o (IF Trim(c.email) = "" THEN <<Msg("ContactEmailRequired", idx, "")>> ELSE << >>)
     \o (IF Trim(c.phone) = "" THEN <<Msg("ContactPhoneRequired", idx, "")>> ELSE << >>)

BasicErrors(custs, data, existingId) ==
        (IF Trim(data.name) = "" THEN <<Msg("NameRequired", 0, "")>> ELSE << >>)
     \o (IF Trim(data.accountNumber) = "" THEN <<Msg("AccountNumberRequired", 0, "")>> ELSE << >>)
     \o (IF ~checkAccountNumberUnique(custs, data.accountNumber, existingId)
         THEN <<Msg("AccountNumberInUse", 0, data.accountNumber)>> ELSE << >>)

\* A faulty variant: more than one primary location or billing address goes unreported.
AddressFlagErrors_ZeroOnly(addresses) ==
  LET primaryCount == Count(addresses, LAMBDA a : a.isPrimary)
      billingCount == Count(addresses, LAMBDA a : a.isBilling)
  IN    (IF primaryCount = 0 THEN <<Msg("PrimaryAddressMissing", 0, "")>> ELSE << >>)
     \o (IF billingCount = 0 THEN <<Msg("BillingAddressMissing", 0, "")>> ELSE << >>)

AddressFlagErrors(addresses) ==
  LET primaryCount == Count(addresses, LAMBDA a : a.isPrimary)
      billingCount == Count(addresses, LAMBDA a : a.isBilling)
  IN    (IF primaryCount = 0 THEN <<Msg("PrimaryAddressMissing", 0, "")>> ELSE << >>)
     \o (IF primaryCount > 1 THEN <<Msg("PrimaryAddressMultiple", 0, "")>> ELSE << >>)
     \o (IF billingCount = 0 THEN <<Msg("BillingAddressMissing", 0, "")>> ELSE << >>)
     \o (IF billingCount > 1 THEN <<Msg("BillingAddressMultiple", 0, "")>> ELSE << >>)

AddressListErrors(addresses) ==
  IF Len(addresses) = 0
  THEN <<Msg("AddressRequired", 0, "")>>
  ELSE AddressFlagErrors(addresses)
       \o Flatten([i \in DOMAIN addresses |-> AddressErrors(addresses[i], i)])

ContactFlagErrors(contacts) ==
  LET primaryContacts == Count(contacts, LAMBDA c : c.isPrimary)
  IN    (IF primaryContacts = 0 THEN <<Msg("PrimaryContactMissing", 0, "")>> ELSE << >>)
     \o (IF primaryContacts > 1 THEN <<Msg("PrimaryContactMultiple", 0, "")>> ELSE << >>)

ContactListErrors(contacts) ==
  IF Len(contacts) = 0
  THEN <<Msg("ContactRequired", 0, "")>>
  ELSE ContactFlagErrors(contacts)
       \o Flatten([i \in DOMAIN contacts |-> ContactErrors(contacts[i], i)])

HierarchyErrors(data) ==
  IF data.type = PARENT /\ Truthy(data.parentId)
  THEN <<Msg("ParentCannotHaveParent", 0, "")>> ELSE << >>

\* A faulty variant: validation stops at the first group of checks that fails.
validateCustomer_FirstGroup(custs, data, existingId) ==
  IF BasicErrors(custs, data, existingId) # << >> THEN BasicErrors(custs, data, existingId)
  ELSE IF AddressListErrors(data.addresses) # << >> THEN AddressListErrors(data.addresses)
  ELSE IF ContactListErrors(data.contacts) # << >> THEN ContactListErrors(data.contacts)
  ELSE HierarchyErrors(data)

validateCustomer(custs, data, existingId) ==
     BasicErrors(custs, data, existingId)
  \o AddressListErrors(data.addresses)
  \o ContactListErrors(data.contacts)
  \o HierarchyErrors(data)

\* ------------------------------------------------------------------ store operations (useCustomerData)
\* `cust_${Date.now()}`
CustId(t) == "cust_" \o ToString(t)

\* A faulty variant, { ...data, ...c }: the record's fields win over the form's.
Merge_RecordWins(c, data) == c

\* { ...c, ...data }: the form's fields replace the record's, id and createdAt stay.
Merge(c, data) ==
  [id |-> c.id, createdAt |-> c.createdAt,
   type |-> data.type, name |-> data.name, accountNumber |-> data.accountNumber,
   isVip |-> data.isVip, addresses |-> data.addresses, parentId |-> data.parentId,
   contacts |-> data.contacts]

Link(c, parentId) == [c EXCEPT !.parentId = parentId, !.type = DIRECT]

\* A faulty variant: the unlinked record becomes a PARENT but keeps its parentId.
Unlink_KeepsParentId(c) == [c EXCEPT !.type = PARENT]

Unlink(c) == [c EXCEPT !.parentId = Null, !.type = PARENT]

addCustomer(prev, data, childIdsToLink, t) ==
  LET newCustomer ==
        [id |-> CustId(t), createdAt |-> t,
         type |-> data.type, name |-> data.name, accountNumber |-> data.accountNumber,
         isVip |-> data.isVip, addresses |-> data.addresses,
         parentId |-> IF data.type = DIRECT THEN data.parentId ELSE Undefined,
         contacts |-> data.contacts]
      updated == Append(prev, newCustomer)
  IN IF data.type = PARENT /\ childIdsToLink # {}
     THEN Map(updated, LAMBDA c : IF c.id \in childIdsToLink THEN Link(c, newCustomer.id) ELSE c)
     ELSE updated

\* A faulty variant: only the customers that pass validate are appended.
batchAddCustomers_Validated(prev, newCustomers) ==
  prev \o SelectSeq(newCustomers, LAMBDA c : Len(validateCustomer(prev, c, Undefined)) = 0)

batchAddCustomers(prev, newCustomers) == prev \o newCustomers

UnlinkPass(list, id, childIdsToLink) ==
  Map(list, LAMBDA c : IF c.parentId = id /\ c.id \notin childIdsToLink THEN Unlink(c) ELSE c)

\* A faulty variant: a listed record that is already a child of id is unlinked (a toggle).
LinkPass_Toggle(list, id, childIdsToLink) ==
  Map(list, LAMBDA c : IF c.id \in childIdsToLink
                       THEN (IF c.parentId = id THEN Unlink(c) ELSE Link(c, id))
                       ELSE c)

LinkPass(list, id, childIdsToLink) ==
  Map(list, LAMBDA c : IF c.id \in childIdsToLink THEN Link(c, id) ELSE c)

\* A faulty variant: the listed records are linked but no former child is unlinked.
updateCustomer_NoUnlink(prev, id, data, childIdsToLink) ==
  LET updated == Map(prev, LAMBDA c : IF c.id = id THEN Merge(c, data) ELSE c)
  IN IF data.type = PARENT
     THEN LinkPass(updated, id, childIdsToLink)
     ELSE updated

updateCustomer(prev, id, data, childIdsToLink) ==
  LET updated == Map(prev, LAMBDA c : IF c.id = id THEN Merge(c, data) ELSE c)
  IN IF data.type = PARENT
     THEN LinkPass(UnlinkPass(updated, id, childIdsToLink), id, childIdsToLink)
     ELSE updated

Filter(s, Test(_)) == SelectSeq(s, Test)

\* A faulty variant: the record is not looked up, and an id nobody has is treated
\* as a parent's.
deleteCustomer_NoLookup(prev, id) ==
  Filter(Map(prev, LAMBDA c : IF c.parentId = id THEN Unlink(c) ELSE c),
         LAMBDA c : c.id # id)

deleteCustomer(prev, id) ==
  IF ~ Some(prev, LAMBDA c : c.id = id)
  THEN prev
  ELSE LET customer == prev[CHOOSE i \in DOMAIN prev :
                              /\ prev[i].id = id
                              /\ \A j \in DOMAIN prev : prev[j].id = id => i <= j]
       IN IF customer.type = PARENT
          THEN Filter(Map(prev, LAMBDA c : IF c.parentId = id THEN Unlink(c) ELSE c),
                      LAMBDA c : c.id # id)
          ELSE Filter(prev, LAMBDA c : c.id # id)

\* ------------------------------------------------------------------ import resolver (ImportCustomers)
\* `cust_import_${Date.now()}_${Math.random().toString(36).substr(2, 5)}`
ImportId(t, r) == "cust_import_" \o ToString(t) \o "_" \o ToString(r)

\* `cust_err_${Date.now()}`
ErrId(t) == "cust_err_" \o ToString(t)

\* processFile: the data lines that parse to at least 7 columns become rows,
\* numbered by their position among the data lines (index + 2).
processFile(lines) ==
  LET numbered == [i \in DOMAIN lines |->
        [rowNumber |-> i + 1,
         customerName |-> lines[i].customerName,
         accountNumber |-> lines[i].accountNumber,
         address |-> lines[i].address,
         zipCode |-> lines[i].zipCode,
         parentCustomerName |-> lines[i].parentCustomerName,
         contactName |-> lines[i].contactName,
         contactEmail |-> lines[i].contactEmail,
         contactPhone |-> lines[i].contactPhone,
         isPrimary |-> lines[i].isPrimary,
         cols |-> lines[i].cols]]
  IN Filter(numbered, LAMBDA r : r.cols >= 7)

\* A faulty variant: every row opens a group of its own account number.
GroupKeys_PerRow(rows) == [i \in DOMAIN rows |-> rows[i].accountNumber]

\* Object.keys(groupedByAccount): the account numbers in order of first
\* appearance (the account numbers of the model are not array indices).
RECURSIVE GroupKeys(_)
GroupKeys(rows) ==
  IF rows = << >> THEN << >>
  ELSE LET acc == Head(rows).accountNumber
       IN <<acc>> \o GroupKeys(Filter(Tail(rows), LAMBDA r : r.accountNumber # acc))

GroupRows(rows, acc) == Filter(rows, LAMBDA r : r.accountNumber = acc)

\* Map.prototype.set / get; get of an absent key is undefined.
MapSet(m, k, v) == [x \in DOMAIN m \cup {k} |-> IF x = k THEN v ELSE m[x]]

MapGet(m, k) == IF k \in DOMAIN m THEN m[k] ELSE Undefined

EmptyMap == [x \in {} |-> Undefined]

\* A faulty variant: the existing parents are registered under their names as
\* written, not lower-cased.
SeedParents_CaseSensitive(m, parents) ==
  [x \in DOMAIN m \cup {parents[i].name : i \in DOMAIN parents} |->
     IF \E i \in DOMAIN parents : parents[i].name = x
     THEN parents[CHOOSE i \in DOMAIN parents :
                    /\ parents[i].name = x
                    /\ \A j \in DOMAIN parents : parents[j].name = x => j <= i].id
     ELSE m[x]]

\* existingParents.forEach(p => parentNameMap.set(p.name.toLowerCase(), p.id))
RECURSIVE SeedParents(_, _)
SeedParents(m, parents) ==
  IF parents = << >> THEN m
  ELSE SeedParents(MapSet(m, ToLowerCase(Head(parents).name), Head(parents).id), Tail(parents))

\* A faulty variant: no id is registered ahead of the second pass.
RegisterParent_Never(m, firstRow, e) == m

\* A faulty variant: only a group whose first row has a contact name and email is
\* registered.
RegisterParent_ValidOnly(m, firstRow, e) ==
  IF /\ ~Truthy(firstRow.parentCustomerName) /\ Truthy(firstRow.customerName)
     /\ Truthy(firstRow.contactName) /\ Truthy(firstRow.contactEmail)
  THEN MapSet(m, ToLowerCase(firstRow.customerName), ImportId(e.t, e.r))
  ELSE m

\* A faulty variant: a name that the map already holds keeps its id.
RegisterParent_KeepExisting(m, firstRow, e) ==
  IF /\ ~Truthy(firstRow.parentCustomerName) /\ Truthy(firstRow.customerName)
     /\ ToLowerCase(firstRow.customerName) \notin DOMAIN m
  THEN MapSet(m, ToLowerCase(firstRow.customerName), ImportId(e.t, e.r))
  ELSE m

\* First pass: every group classified PARENT gets an id up front, registered
\* under its lower-cased name.  env[g] is the reading of Date.now() and
\* Math.random() for the g-th group.
RegisterParent(m, firstRow, e) ==
  IF ~Truthy(firstRow.parentCustomerName) /\ Truthy(firstRow.customerName)
  THEN MapSet(m, ToLowerCase(firstRow.customerName), ImportId(e.t, e.r))
  ELSE m

RECURSIVE FirstPass(_, _, _, _, _)
FirstPass(m, rows, keys, g, env) ==
  IF g > Len(keys) THEN m
  ELSE FirstPass(RegisterParent(m, GroupRows(rows, keys[g])[1], env[g]), rows, keys, g + 1, env)

Rejection(rowNumber, kind, arg) == [rowNumber |-> rowNumber, reason |-> [kind |-> kind, arg |-> arg]]

\* A faulty variant: only the first row of the group gets an entry.
RejectAll_FirstRow(groupRows, kind, arg) ==
  <<Rejection(groupRows[1].rowNumber, kind, arg)>>

RejectAll(groupRows, kind, arg) == Map(groupRows, LAMBDA r : Rejection(r.rowNumber, kind, arg))

\* The rejection of a group with a row that lacks a contact name or email:
\* an entry for each such row.
RejectMissingContact(groupRows) ==
  Map(Filter(groupRows, LAMBDA r : ~Truthy(r.contactName) \/ ~Truthy(r.contactEmail)),
      LAMBDA r : Rejection(r.rowNumber, "MissingContactNameOrEmail", ""))

\* One contact per row (the ids of contacts and addresses are not modelled:
\* neither the store nor the resolver reads them).
BuildContacts(groupRows, accNum) ==
  [i \in DOMAIN groupRows |->
     [name |-> groupRows[i].contactName,
      email |-> groupRows[i].contactEmail,
      phone |-> groupRows[i].contactPhone,
      isPrimary |-> groupRows[i].isPrimary]]

\* A faulty variant: a single contact keeps the flag of its row.
ResolvePrimary_KeepFlag(validContacts) == validContacts

\* validContacts[0].isPrimary = true when there is exactly one contact.
ResolvePrimary(validContacts) ==
  IF Len(validContacts) = 1
  THEN <<[validContacts[1] EXCEPT !.isPrimary = TRUE]>>
  ELSE validContacts

ImportedAddress(firstRow) ==
  [street |-> firstRow.address, latitude |-> Undefined, longitude |-> Undefined,
   city |-> "Imported City", state |-> "Imported State", zipCode |-> firstRow.zipCode,
   isPrimary |-> TRUE, isBilling |-> TRUE, isGateProperty |-> FALSE]

\* A faulty variant: the account number is compared with the stored ids.
isDuplicateInDb_ById(existingCustomers, accNum) ==
  Some(existingCustomers, LAMBDA c : c.id = accNum)

\* existingCustomers.some(c => c.accountNumber === accNum)
isDuplicateInDb(existingCustomers, accNum) ==
  Some(existingCustomers, LAMBDA c : c.accountNumber = accNum)

\* Second pass, one group: [valid |-> <<customer>> or << >>, errors |-> its rejections].
AnalyzeGroup(existingCustomers, parentNameMap, groupRows, accNum, e) ==
  LET firstRow == groupRows[1]
      uniqueNames == {groupRows[i].customerName : i \in DOMAIN groupRows}
      contacts == BuildContacts(groupRows, accNum)
      validContacts == Filter(contacts, LAMBDA c : Truthy(c.name) /\ Truthy(c.email))
      primaryCount == Count(validContacts, LAMBDA c : c.isPrimary)
      isParent == ~Truthy(firstRow.parentCustomerName)
      parentId == IF isParent THEN Undefined
                  ELSE MapGet(parentNameMap, ToLowerCase(firstRow.parentCustomerName))
      mapped == IF isParent THEN MapGet(parentNameMap, ToLowerCase(firstRow.customerName))
                ELSE ImportId(e.t, e.r)
      finalId == IF Truthy(mapped) THEN mapped ELSE ErrId(e.t)
      newCustomer ==
        [id |-> finalId, createdAt |-> e.t,
         type |-> IF isParent THEN PARENT ELSE DIRECT,
         name |-> firstRow.customerName, accountNumber |-> firstRow.accountNumber,
         isVip |-> FALSE, addresses |-> <<ImportedAddress(firstRow)>>,
         parentId |-> IF isParent THEN Undefined ELSE parentId,
         contacts |-> ResolvePrimary(validContacts)]
      Rejected(errs) == [valid |-> << >>, errors |-> errs]
  IN CASE ~Truthy(firstRow.customerName) ->
            Rejected(RejectAll(groupRows, "MissingCustomerName", ""))
       [] Truthy(firstRow.customerName) /\ Cardinality(uniqueNames) > 1 ->
            Rejected(RejectAll(groupRows, "DuplicateAccountDifferentNames", accNum))
       [] OTHER ->
            IF isDuplicateInDb(existingCustomers, accNum)
            THEN Rejected(RejectAll(groupRows, "AccountExists", accNum))
            ELSE IF Len(validContacts) # Len(contacts)
            THEN Rejected(RejectMissingContact(groupRows))
            ELSE IF Len(validContacts) > 1 /\ primaryCount = 0
            THEN Rejected(RejectAll(groupRows, "NoPrimaryContact", ""))
            ELSE IF Len(validContacts) > 1 /\ primaryCount > 1
            THEN Rejected(RejectAll(groupRows, "MultiplePrimaryContacts", ""))
            ELSE IF Len(validContacts) = 0
            THEN Rejected(RejectAll(groupRows, "NoValidContacts", ""))
            ELSE IF ~isParent /\ ~Truthy(parentId)
            THEN Rejected(RejectAll(groupRows, "ParentNotFound", firstRow.parentCustomerName))
            ELSE [valid |-> <<newCustomer>>, errors |-> << >>]

\* errors.sort((a, b) => a.rowNumber - b.rowNumber): a stable insertion by row number.
RECURSIVE InsertByRow(_, _)
InsertByRow(sorted, x) ==
  IF sorted = << >> THEN <<x>>
  ELSE IF Head(sorted).rowNumber <= x.rowNumber
       THEN <<Head(sorted)>> \o InsertByRow(Tail(sorted), x)
       ELSE <<x>> \o sorted

RECURSIVE SortByRow(_)
SortByRow(errs) ==
  IF errs = << >> THEN << >>
  ELSE InsertByRow(SortByRow(SubSeq(errs, 1, Len(errs) - 1)), errs[Len(errs)])

getParents(custs) == Filter(custs, LAMBDA c : c.type = PARENT)

analyzeRows(existingCustomers, existingParents, rows, env) ==
  LET keys == GroupKeys(rows)
      parentNameMap == FirstPass(SeedParents(EmptyMap, existingParents), rows, keys, 1, env)
      results == [g \in DOMAIN keys |->
                    AnalyzeGroup(existingCustomers, parentNameMap,
                                 GroupRows(rows, keys[g]), keys[g], env[g])]
  IN [validCustomers |-> Flatten([g \in DOMAIN keys |-> results[g].valid]),
      errors |-> SortByRow(Flatten([g \in DOMAIN keys |-> results[g].errors]))]

\* ------------------------------------------------------------------ inputs
\* What the user can put in the form's content fields.
GoodAddress ==
  [street |-> "1 Main St", latitude |-> Undefined, longitude |-> Undefined,
   city |-> "Imported City", state |-> "Imported State", zipCode |-> "62701",
   isPrimary |-> TRUE, isBilling |-> TRUE, isGateProperty |-> FALSE]

GoodContact ==
  [name |-> "Ann", email |-> "ann@example.com", phone |-> "555-0100", isPrimary |-> TRUE]

Content(name, accountNumber, addresses, contacts) ==
  [name |-> name, accountNumber |-> accountNumber, isVip |-> FALSE,
   addresses |-> addresses, contacts |-> contacts]

FormAccounts == {"A1", "A2", "A3"}

FormContents ==
     {Content("Acme", a, <<GoodAddress>>, <<GoodContact>>) : a \in FormAccounts}
  \cup {Content("", "A1", <<GoodAddress>>, <<GoodContact>>),
        Content("Acme", "", <<GoodAddress>>, <<GoodContact>>),
        Content("Acme", "A1", <<GoodAddress, GoodAddress>>, <<GoodContact>>),
        Content("Acme", "A1", <<[GoodAddress EXCEPT !.isBilling = FALSE]>>, <<GoodContact>>),
        Content("Acme", "A1", <<GoodAddress>>, <<[GoodContact EXCEPT !.isPrimary = FALSE]>>)}

\* The data lines a file can hold.
Line(name, acc, parent, cname, cemail, phone, primary, cols) ==
  [customerName |-> name, accountNumber |-> acc, address |-> "1 Main St", zipCode |-> "62701",
   parentCustomerName |-> parent, contactName |-> cname, contactEmail |-> cemail,
   contactPhone |-> phone, isPrimary |-> primary, cols |-> cols]

AnnLine(name, acc, parent) ==
  Line(name, acc, parent, "Ann", "ann@example.com", "555-0100", TRUE, 9)

Lines ==
  {AnnLine("Acme", "A1", ""), AnnLine("ACME", "A2", ""), AnnLine("Acme", "A2", "Acme"),
   AnnLine("Acme", "", ""),
   Line("Acme", "A1", "", "Bob", "bob@example.com", "555-0101", FALSE, 9)}

SeqsUpTo(S, n) == UNION {[1..k -> S] : k \in 1..n}

Files == SeqsUpTo(Lines, MaxRows)

\* The readings of Date.now() and Math.random() of one run of the resolver, one
\* pair for each group: the run takes less than a millisecond, and the random
\* suffixes it draws differ from each other.
RunEnv(n) == [g \in 1..n |-> [t |-> now, r |-> g]]

\* ------------------------------------------------------------------ initial state
BlankForm ==
  [type |-> PARENT, name |-> "", accountNumber |-> "", isVip |-> FALSE,
   addresses |-> << >>, parentId |-> Null, contacts |-> << >>]

NoData == [validCustomers |-> << >>, errors |-> << >>, present |-> FALSE]

Op(op, id, data, childIds, added, pre) ==
  [op |-> op, id |-> id, data |-> data, childIds |-> childIds, added |-> added, pre |-> pre]

NoOp == Op("none", Null, BlankForm, {}, << >>, << >>)

Idle ==
  /\ currentView = "LIST"
  /\ selectedCustomerId = Null
  /\ formData = BlankForm
  /\ linkedChildIds = {}
  /\ errors = << >>
  /\ file = << >>
  /\ processedData = NoData
  /\ lastOp = NoOp
  /\ now = 1

\* useState(() => saved ? JSON.parse(saved) : INITIAL_CUSTOMERS): the run starts
\* on the list that storage holds, here the empty list.
Init ==
  /\ customers = << >>
  /\ Idle

\* ------------------------------------------------------------------ App and CustomerForm
Ids(custs) == {custs[i].id : i \in DOMAIN custs}

\* customers.find(c => c.id === id): the first record with that id.
Find(custs, id) ==
  custs[CHOOSE i \in DOMAIN custs :
          custs[i].id = id /\ \A j \in DOMAIN custs : custs[j].id = id => i <= j]

\* The form as it opens: empty (initialId absent), or on the stored customer.
InitialForm(custs, initialId) ==
  IF initialId = Undefined THEN BlankForm
  ELSE LET initialData == Find(custs, initialId)
       IN [type |-> IF Truthy(initialData.parentId) THEN DIRECT ELSE PARENT,
           name |-> initialData.name, accountNumber |-> initialData.accountNumber,
           isVip |-> initialData.isVip, addresses |-> initialData.addresses,
           parentId |-> IF Truthy(initialData.parentId) THEN initialData.parentId ELSE Null,
           contacts |-> initialData.contacts]

\* The children preselected when the form opens on a customer stored as a PARENT.
InitialLinked(custs, initialId) ==
  IF initialId # Undefined /\ Find(custs, initialId).type = PARENT
  THEN {custs[i].id : i \in {j \in DOMAIN custs : custs[j].parentId = initialId}}
  ELSE {}

\* The options of the parent select: no parent, or a PARENT other than the edited one.
ParentOptions(custs, initialId) ==
  {Null} \cup {c.id : c \in {p \in Range(getParents(custs)) : p.id # initialId}}

isParentRecursive(custs, id) == Some(custs, LAMBDA c : c.parentId = id)

\* searchResults with an empty search term: the customers offered as new children.
searchResults(custs, initialId, linked) ==
  {c.id : c \in {x \in Range(custs) :
                   /\ x.id # initialId
                   /\ x.id \notin linked
                   /\ ~isParentRecursive(custs, x.id)}}

\* The customers listed as linked, each with its unlink button.
linkedCustomers(custs, linked) == {c.id : c \in {x \in Range(custs) : x.id \in linked}}

\* handleParentChange on a form; the select is disabled while children are linked.
ParentChanged(form, newParentId) ==
  [form EXCEPT !.parentId = newParentId,
               !.type = IF Truthy(newParentId) THEN DIRECT ELSE PARENT]

\* toggleChildLink on the list of linked ids.
Toggled(linked, childId) ==
  IF childId \in linked THEN linked \ {childId} ELSE linked \cup {childId}

\* The hierarchy part of the form (parent choice and linked children) the user can
\* reach from the opening state with handleParentChange (enabled while no child is
\* linked) and toggleChildLink (shown while no parent is chosen).
FormLinks(custs, initialId) ==
  LET p0 == InitialForm(custs, initialId).parentId
      L0 == InitialLinked(custs, initialId)
      addable == searchResults(custs, initialId, {})
  IN IF Truthy(p0) /\ L0 # {}
     THEN {[parentId |-> p0, linked |-> L0]}
     ELSE    {[parentId |-> p, linked |-> {}] : p \in ParentOptions(custs, initialId) \cup {p0}}
        \cup {[parentId |-> Null, linked |-> L] : L \in SUBSET (L0 \cup addable)}

\* The form at submit: the content the user typed and the hierarchy part reached.
SubmittedForm(content, parentId) ==
  [type |-> IF Truthy(parentId) THEN DIRECT ELSE PARENT,
   name |-> content.name, accountNumber |-> content.accountNumber, isVip |-> content.isVip,
   addresses |-> content.addresses, parentId |-> parentId, contacts |-> content.contacts]

UIUnchanged ==
  UNCHANGED <<currentView, selectedCustomerId, formData, linkedChildIds, errors, file,
              processedData>>

\* A create session: "New Customer", the user's edits, CustomerForm.handleSubmit
\* passing validation, App.handleSubmit calling addCustomer.
SubmitCreate(content, link) ==
  /\ Len(customers) < MaxCustomers
  /\ LET data == SubmittedForm(content, link.parentId)
     IN /\ Len(validateCustomer(customers, data, Undefined)) = 0
        /\ customers' = addCustomer(customers, data, link.linked, now)
        /\ lastOp' = Op("create", CustId(now), data, link.linked, << >>, customers)
  /\ UIUnchanged

\* An edit session: handleEdit, the user's edits, CustomerForm.handleSubmit passing
\* validation against the edited id, App.handleSubmit calling updateCustomer.
SubmitUpdate(id, content, link) ==
  /\ id \in Ids(customers)
  /\ LET data == SubmittedForm(content, link.parentId)
     IN /\ Len(validateCustomer(customers, data, id)) = 0
        /\ customers' = updateCustomer(customers, id, data, link.linked)
        /\ lastOp' = Op("update", id, data, link.linked, << >>, customers)
  /\ UIUnchanged

\* handleDelete, confirmed by the user.
Delete(id) ==
  /\ id \in Ids(customers)
  /\ customers' = deleteCustomer(customers, id)
  /\ lastOp' = Op("delete", id, BlankForm, {}, << >>, customers)
  /\ UIUnchanged

\* An import session: a file is processed against the current customers and the
\* accepted list is committed with the Import button (App.handleImport).
ImportCommit(lines, env) ==
  /\ LET result == analyzeRows(customers, getParents(customers), processFile(lines), env)
     IN /\ Len(result.validCustomers) > 0
        /\ Len(customers) + Len(result.validCustomers) <= MaxCustomers
        /\ customers' = batchAddCustomers(customers, result.validCustomers)
        /\ lastOp' = Op("batchAdd", Null, BlankForm, {}, result.validCustomers, customers)
  /\ UIUnchanged

\* One user session ends with each store operation, and the next one ends at least
\* a millisecond later.
Session == now <= MaxTime /\ now' = now + 1

CreateSession ==
  /\ Session
  /\ \E content \in FormContents, link \in FormLinks(customers, Undefined) :
       SubmitCreate(content, link)

EditSession ==
  /\ Session
  /\ \E id \in Ids(customers) :
       \E content \in FormContents \cup {InitialForm(customers, id)},
          link \in FormLinks(customers, id) :
         SubmitUpdate(id, content, link)

DeleteClick ==
  /\ Session
  /\ \E id \in Ids(customers) : Delete(id)

ImportSession ==
  /\ Session
  /\ Len(customers) < MaxCustomers
  /\ \E lines \in Files :
       ImportCommit(lines, RunEnv(Len(GroupKeys(processFile(lines)))))

Next == CreateSession \/ EditSession \/ DeleteClick \/ ImportSession

Spec == Init /\ [][Next]_vars

\* ------------------------------------------------------------------ the import view, step by step
\* The customers found in storage when the page loads, for the runs that study
\* the importer: none, or one PARENT saved from the form.
StoredParent ==
  [id |-> CustId(1), createdAt |-> 1, type |-> PARENT, name |-> "Acme",
   accountNumber |-> "A1", isVip |-> FALSE, addresses |-> <<GoodAddress>>,
   parentId |-> Undefined, contacts |-> <<GoodContact>>]

StoredPopulations == {<< >>, <<StoredParent>>}

ImportLines ==
     {Line(n, a, p, cn, "ann@example.com", "555-0100", pr, 9) :
        n \in {"", "Acme", "ACME"}, a \in {"A1", "A2"}, p \in {"", "Acme"},
        cn \in {"", "Ann"}, pr \in BOOLEAN}
  \cup {Line("Acme", "", "", "Ann", "ann@example.com", "555-0100", TRUE, 9),
        Line("Bolt", "A2", "Zed", "Ann", "ann@example.com", "", TRUE, 9),
        Line("Bolt", "A2", "", "Ann", "", "", FALSE, 9),
        Line("Bolt", "A2", "", "Ann", "ann@example.com", "", TRUE, 6)}

ImportFiles == SeqsUpTo(ImportLines, MaxRows)

InitImport ==
  /\ customers \in StoredPopulations
  /\ Idle

\* The list's Import button: the import view opens.
OpenImport ==
  /\ currentView = "LIST"
  /\ now <= MaxImports
  /\ currentView' = "IMPORT"
  /\ file' = << >>
  /\ processedData' = NoData
  /\ lastOp' = NoOp
  /\ UNCHANGED <<customers, selectedCustomerId, formData, linkedChildIds, errors, now>>

\* handleFileChange: a file is chosen and the previous result is dropped.
\* The input is rendered until a result is shown; choosing over an earlier choice
\* gives the very state that choosing over no choice gives, so the choice is
\* explored from the empty selection.
handleFileChange(lines) ==
  /\ currentView = "IMPORT"
  /\ file = << >>
  /\ file' = lines
  /\ processedData' = NoData
  /\ lastOp' = NoOp
  /\ UNCHANGED <<customers, currentView, selectedCustomerId, formData, linkedChildIds,
                 errors, now>>

\* The result of processFile and analyzeRows on the chosen file.
Resolve(custs, lines) ==
  analyzeRows(custs, getParents(custs), processFile(lines),
              RunEnv(Len(GroupKeys(processFile(lines)))))

\* A faulty variant: the accepted customers are stored as soon as they are resolved.
ProcessFile_Stores ==
  /\ currentView = "IMPORT"
  /\ file # << >>
  /\ ~processedData.present
  /\ LET result == Resolve(customers, file)
     IN /\ processedData' = [validCustomers |-> result.validCustomers,
                             errors |-> result.errors, present |-> TRUE]
        /\ customers' = batchAddCustomers(customers, result.validCustomers)
  /\ lastOp' = NoOp
  /\ UNCHANGED <<currentView, selectedCustomerId, formData, linkedChildIds,
                 errors, file, now>>

\* "Analyze File": processFile, then analyzeRows, then setProcessedData.
ProcessFile ==
  /\ currentView = "IMPORT"
  /\ file # << >>
  /\ ~processedData.present
  /\ LET result == Resolve(customers, file)
     IN processedData' = [validCustomers |-> result.validCustomers,
                          errors |-> result.errors, present |-> TRUE]
  /\ lastOp' = NoOp
  /\ UNCHANGED <<customers, currentView, selectedCustomerId, formData, linkedChildIds,
                 errors, file, now>>

\* The Import button (disabled when nothing was accepted), then App.handleImport.
handleImport ==
  /\ currentView = "IMPORT"
  /\ processedData.present
  /\ Len(processedData.validCustomers) > 0
  /\ customers' = batchAddCustomers(customers, processedData.validCustomers)
  /\ lastOp' = Op("batchAdd", Null, BlankForm, {}, processedData.validCustomers, customers)
  /\ currentView' = "LIST"
  /\ file' = << >>
  /\ processedData' = NoData
  /\ now' = now + 1
  /\ UNCHANGED <<selectedCustomerId, formData, linkedChildIds, errors>>

\* onCancel, or the layout's home link: back to the list, the result is dropped.
CancelImport ==
  /\ currentView = "IMPORT"
  /\ currentView' = "LIST"
  /\ file' = << >>
  /\ processedData' = NoData
  /\ lastOp' = NoOp
  /\ UNCHANGED <<customers, selectedCustomerId, formData, linkedChildIds, errors, now>>

\* "Remove & Upload New", rendered beside a result: setFile(null),
\* setProcessedData(null).
RemoveFile ==
  /\ currentView = "IMPORT"
  /\ processedData.present
  /\ file' = << >>
  /\ processedData' = NoData
  /\ lastOp' = NoOp
  /\ UNCHANGED <<customers, currentView, selectedCustomerId, formData, linkedChildIds,
                 errors, now>>

ChooseFile == \E lines \in ImportFiles : handleFileChange(lines)

NextImport ==
  OpenImport \/ ChooseFile \/ ProcessFile \/ RemoveFile \/ handleImport \/ CancelImport

SpecImport == InitImport /\ [][NextImport]_vars

\* ------------------------------------------------------------------ the form, step by step
\* The customers found in storage for the runs that study the form: one PARENT,
\* or a PARENT with a child and a second PARENT, all saved from the form.
StoredFamily ==
  <<StoredParent,
    [StoredParent EXCEPT !.id = CustId(2), !.createdAt = 2, !.accountNumber = "A2"],
    [StoredParent EXCEPT !.id = CustId(3), !.createdAt = 3, !.accountNumber = "A3",
                         !.type = DIRECT, !.parentId = CustId(1)]>>

FormPopulations == {<<StoredParent>>, StoredFamily}

\* The values the user can give to the content fields of the form.
FieldValues(field) ==
  CASE field = "name" -> {"", "Acme"}
    [] field = "accountNumber" -> {""} \cup FormAccounts
    [] field = "addresses" -> {<<GoodAddress>>, <<GoodAddress, GoodAddress>>,
                               <<[GoodAddress EXCEPT !.isBilling = FALSE]>>}
    [] field = "contacts" -> {<<GoodContact>>, <<[GoodContact EXCEPT !.isPrimary = FALSE]>>}

ContentFields == {"name", "accountNumber", "addresses", "contacts"}

InForm == currentView \in {"CREATE", "EDIT"}

\* initialData of the mounted form: the selected customer, if any.
InitialId == selectedCustomerId

InitForm ==
  /\ customers \in FormPopulations
  /\ Idle

\* The list's "New Customer" button; the form mounts empty.
OpenCreate ==
  /\ currentView = "LIST"
  /\ now <= MaxFormOps
  /\ Len(customers) < MaxCustomers
  /\ selectedCustomerId' = Null
  /\ currentView' = "CREATE"
  /\ formData' = BlankForm
  /\ linkedChildIds' = {}
  /\ errors' = << >>
  /\ lastOp' = NoOp
  /\ UNCHANGED <<customers, file, processedData, now>>

\* App.handleEdit; the form mounts on the customer and its effect preselects the
\* children of a PARENT.
handleEdit(id) ==
  /\ currentView = "LIST"
  /\ now <= MaxFormOps
  /\ selectedCustomerId' = id
  /\ currentView' = "EDIT"
  /\ formData' = InitialForm(customers, id)
  /\ linkedChildIds' = InitialLinked(customers, id)
  /\ errors' = << >>
  /\ lastOp' = NoOp
  /\ UNCHANGED <<customers, file, processedData, now>>

\* handleChange(field, value) on a content field.
handleChange(field, value) ==
  /\ InForm
  /\ formData' =
       CASE field = "name" -> [formData EXCEPT !.name = value]
         [] field = "accountNumber" -> [formData EXCEPT !.accountNumber = value]
         [] field = "addresses" -> [formData EXCEPT !.addresses = value]
         [] field = "contacts" -> [formData EXCEPT !.contacts = value]
  /\ lastOp' = NoOp
  /\ UNCHANGED <<customers, currentView, selectedCustomerId, linkedChildIds, errors, file,
                 processedData, now>>

\* handleParentChange: the select is disabled while children are linked.
handleParentChange(newParentId) ==
  /\ InForm
  /\ linkedChildIds = {}
  /\ newParentId \in ParentOptions(customers, InitialId)
  /\ formData' = ParentChanged(formData, newParentId)
  /\ lastOp' = NoOp
  /\ UNCHANGED <<customers, currentView, selectedCustomerId, linkedChildIds, errors, file,
                 processedData, now>>

\* toggleChildLink from the unlink button of a linked customer or from a search
\* result; the section is rendered while the form has no parent.
toggleChildLink(childId) ==
  /\ InForm
  /\ ~Truthy(formData.parentId)
  /\ childId \in linkedCustomers(customers, linkedChildIds)
                   \cup searchResults(customers, InitialId, linkedChildIds)
  /\ linkedChildIds' = Toggled(linkedChildIds, childId)
  /\ lastOp' = NoOp
  /\ UNCHANGED <<customers, currentView, selectedCustomerId, formData, errors, file,
                 processedData, now>>

\* App.handleSubmit: the form is stored and the list is shown.
StoreForm ==
  /\ IF currentView = "EDIT" /\ Truthy(selectedCustomerId)
     THEN /\ customers' = updateCustomer(customers, selectedCustomerId, formData,
                                         linkedChildIds)
          /\ lastOp' = Op("update", selectedCustomerId, formData, linkedChildIds,
                          << >>, customers)
     ELSE /\ customers' = addCustomer(customers, formData, linkedChildIds, now)
          /\ lastOp' = Op("create", CustId(now), formData, linkedChildIds,
                          << >>, customers)
  /\ currentView' = "LIST"
  /\ selectedCustomerId' = Null
  /\ formData' = BlankForm
  /\ linkedChildIds' = {}
  /\ errors' = << >>
  /\ now' = now + 1

\* A faulty variant: the form is stored whatever validate returns.
handleSubmit_Unchecked ==
  /\ InForm
  /\ StoreForm
  /\ UNCHANGED <<file, processedData>>

\* CustomerForm.handleSubmit: the errors are shown, or App.handleSubmit stores the
\* form and returns to the list.
handleSubmit ==
  /\ InForm
  /\ LET validationErrors == validateCustomer(customers, formData, InitialId)
     IN IF Len(validationErrors) > 0
        THEN /\ errors' = validationErrors
             /\ lastOp' = NoOp
             /\ UNCHANGED <<customers, currentView, selectedCustomerId, formData,
                            linkedChildIds, now>>
        ELSE StoreForm
  /\ UNCHANGED <<file, processedData>>

\* onCancel, or the layout's home link: back to the list, the form unmounts.
CancelForm ==
  /\ InForm
  /\ currentView' = "LIST"
  /\ UNCHANGED selectedCustomerId
  /\ formData' = BlankForm
  /\ linkedChildIds' = {}
  /\ errors' = << >>
  /\ lastOp' = NoOp
  /\ UNCHANGED <<customers, file, processedData, now>>

\* App.handleDelete, confirmed by the user.
handleDelete(id) ==
  /\ currentView = "LIST"
  /\ now <= MaxFormOps
  /\ Delete(id)
  /\ now' = now + 1

EditClick == \E id \in Ids(customers) : handleEdit(id)

Typing == \E field \in ContentFields : \E value \in FieldValues(field) : handleChange(field, value)

ParentSelect == \E newParentId \in ParentOptions(customers, InitialId) : handleParentChange(newParentId)

ChildToggle == \E childId \in Ids(customers) : toggleChildLink(childId)

ListDelete == \E id \in Ids(customers) : handleDelete(id)

NextForm ==
  \/ OpenCreate \/ EditClick \/ Typing \/ ParentSelect \/ ChildToggle
  \/ handleSubmit \/ CancelForm \/ ListDelete

SpecForm == InitForm /\ [][NextForm]_vars

\* The sessions of Spec submit what the form can hold: in every state of the
\* mounted form its hierarchy part is one of FormLinks, and its type follows
\* its parent.
FormLinksCover ==
  InForm =>
    /\ [parentId |-> formData.parentId, linked |-> linkedChildIds]
         \in FormLinks(customers, InitialId)
    /\ formData.type = IF Truthy(formData.parentId) THEN DIRECT ELSE PARENT

\* ------------------------------------------------------------------ creates under the wall clock
\* Date.now() reads the wall clock, which no store operation controls: two
\* creates can read one millisecond, and the system can set the clock back.
ClockChange ==
  /\ \E t \in 1..MaxTime : t # now /\ now' = t
  /\ lastOp' = NoOp
  /\ UNCHANGED <<customers, currentView, selectedCustomerId, formData, linkedChildIds,
                 errors, file, processedData>>

\* A create session, the clock left to its owner.
CreateStep ==
  /\ \E content \in FormContents, link \in FormLinks(customers, Undefined) :
       SubmitCreate(content, link)
  /\ UNCHANGED now

NextCreate == CreateStep \/ ClockChange

SpecCreate == Init /\ [][NextCreate]_vars

\* ------------------------------------------------------------------ validate on its own
\* The candidates validate is applied to: the fields of an address and of a
\* contact, blank one at a time, under every choice of their flags, in lists of
\* up to MaxList entries.
AddressFieldValues ==
  {GoodAddress,
   [GoodAddress EXCEPT !.street = "", !.latitude = "41.1", !.longitude = "-87.6"],
   [GoodAddress EXCEPT !.street = " ", !.latitude = "41.1"],
   [GoodAddress EXCEPT !.city = ""],
   [GoodAddress EXCEPT !.state = " "],
   [GoodAddress EXCEPT !.zipCode = ""]}

AddressValues ==
  {[a EXCEPT !.isPrimary = p, !.isBilling = b] :
     a \in AddressFieldValues, p \in BOOLEAN, b \in BOOLEAN}

ContactValues ==
  {[c EXCEPT !.isPrimary = p] :
     c \in {GoodContact, [GoodContact EXCEPT !.name = ""],
            [GoodContact EXCEPT !.email = " "], [GoodContact EXCEPT !.phone = ""]},
     p \in BOOLEAN}

ListsUpTo(S, n) == {<< >>} \cup SeqsUpTo(S, n)

Candidate(name, accountNumber, type, parentId, addresses, contacts) ==
  [type |-> type, name |-> name, accountNumber |-> accountNumber, isVip |-> FALSE,
   addresses |-> addresses, parentId |-> parentId, contacts |-> contacts]

ValidateCandidates ==
     {Candidate(n, a, ty, p, <<GoodAddress>>, <<GoodContact>>) :
        n \in {"", " ", "Acme"}, a \in {"", "A1", "A2"},
        ty \in {PARENT, DIRECT}, p \in {Null, CustId(1)}}
  \cup {Candidate(n, "A2", PARENT, Null, as, cs) :
        n \in {"", "Acme"}, as \in ListsUpTo(AddressValues, MaxList),
        cs \in {<<GoodContact>>, << >>}}
  \cup {Candidate("Acme", "A1", PARENT, Null, as, cs) :
        as \in {<<GoodAddress>>, <<[GoodAddress EXCEPT !.city = ""]>>},
        cs \in ListsUpTo(ContactValues, MaxList)}

\* The stored customers and the excludeId that validate is called with.
ValidateCalls ==
  {[custs |-> << >>, excludeId |-> Undefined],
   [custs |-> <<StoredParent>>, excludeId |-> Undefined],
   [custs |-> <<StoredParent>>, excludeId |-> CustId(1)],
   [custs |-> StoredFamily, excludeId |-> CustId(2)]}

InitValidate ==
  /\ \E call \in ValidateCalls :
       /\ customers = call.custs
       /\ selectedCustomerId = call.excludeId
  /\ formData \in ValidateCandidates
  /\ currentView = "EDIT"
  /\ linkedChildIds = {}
  /\ errors = << >>
  /\ file = << >>
  /\ processedData = NoData
  /\ lastOp = NoOp
  /\ now = 1

\* validate(formData, initialData?.id), its result kept in errors.
Validate ==
  /\ lastOp.op = "none"
  /\ errors' = validateCustomer(customers, formData, selectedCustomerId)
  /\ lastOp' = Op("validate", selectedCustomerId, formData, {}, << >>, customers)
  /\ UNCHANGED <<customers, currentView, selectedCustomerId, formData, linkedChildIds,
                 file, processedData, now>>

NextValidate == Validate

SpecValidate == InitValidate /\ [][NextValidate]_vars

\* ------------------------------------------------------------------ the store called directly
\* addCustomer, updateCustomer and deleteCustomer as the hook exports them: the
\* candidate has passed validate and has the type the form gives it (DIRECT under
\* a parent, PARENT without one), the id and the childIdsToLink are any strings
\* the caller holds, ids of stored customers or not.
StoreAccounts == FormAccounts \cup {"A4"}

StoreData ==
  {Candidate("Acme", a, h[1], h[2], <<GoodAddress>>, <<GoodContact>>) :
     a \in StoreAccounts, h \in {<<PARENT, Null>>, <<DIRECT, CustId(1)>>, <<DIRECT, CustId(2)>>}}

StoreIds == {CustId(t) : t \in 1..(Len(StoredFamily) + MaxStoreOps)}

StoreLinks == {ids \in SUBSET StoreIds : Cardinality(ids) <= 2}

InitStore ==
  /\ customers \in {<< >>, <<StoredParent>>, StoredFamily}
  /\ currentView = "LIST"
  /\ selectedCustomerId = Null
  /\ formData = BlankForm
  /\ linkedChildIds = {}
  /\ errors = << >>
  /\ file = << >>
  /\ processedData = NoData
  /\ lastOp = NoOp
  /\ now = Len(StoredFamily) + 1

StoreCalled ==
  /\ now < Len(StoredFamily) + 1 + MaxStoreOps
  /\ now' = now + 1
  /\ UNCHANGED <<currentView, selectedCustomerId, formData, linkedChildIds, errors,
                 file, processedData>>

CreateCall ==
  /\ StoreCalled
  /\ \E data \in StoreData, childIdsToLink \in StoreLinks :
       /\ Len(validateCustomer(customers, data, Undefined)) = 0
       /\ customers' = addCustomer(customers, data, childIdsToLink, now)
       /\ lastOp' = Op("create", CustId(now), data, childIdsToLink, << >>, customers)

UpdateCall ==
  /\ StoreCalled
  /\ \E id \in StoreIds, data \in StoreData, childIdsToLink \in StoreLinks :
       /\ Len(validateCustomer(customers, data, id)) = 0
       /\ customers' = updateCustomer(customers, id, data, childIdsToLink)
       /\ lastOp' = Op("update", id, data, childIdsToLink, << >>, customers)

DeleteCall ==
  /\ StoreCalled
  /\ \E id \in StoreIds :
       /\ customers' = deleteCustomer(customers, id)
       /\ lastOp' = Op("delete", id, BlankForm, {}, << >>, customers)

NextStore == CreateCall \/ UpdateCall \/ DeleteCall

SpecStore == InitStore /\ [][NextStore]_vars

\* ------------------------------------------------------------------ the resolver on batches of three
\* The import view with a file already chosen: "Analyze File", then the Import
\* button.  The files hold up to MaxBatch data lines, so that a batch can hold two
\* PARENT groups and a DIRECT group that names them.
ResolveLines ==
     {AnnLine(n, a, p) : n \in {"Acme", "ACME"}, a \in {"A1", "A2", "A3"}, p \in {"", "Acme"}}
  \cup {AnnLine("Bolt", "A3", "Acme"), AnnLine("Bolt", "A3", "ACME"),
        AnnLine("Bolt", "A3", "Zed"), AnnLine("", "A3", ""),
        Line("Acme", "A2", "", "", "ann@example.com", "555-0100", TRUE, 9),
        Line("Acme", "A2", "", "Bob", "bob@example.com", "", FALSE, 9)}

ResolveFiles == SeqsUpTo(ResolveLines, MaxBatch)

InitResolve ==
  /\ customers \in StoredPopulations
  /\ currentView = "IMPORT"
  /\ file \in ResolveFiles
  /\ selectedCustomerId = Null
  /\ formData = BlankForm
  /\ linkedChildIds = {}
  /\ errors = << >>
  /\ processedData = NoData
  /\ lastOp = NoOp
  /\ now = 1

NextResolve == ProcessFile \/ handleImport

SpecResolve == InitResolve /\ [][NextResolve]_vars

\* ------------------------------------------------------------------ claims
\* C1. Hierarchy depth: no customer whose id is some record's parentId has itself
\* a non-null parentId.
C1_HierarchyDepth ==
  \A i, j \in DOMAIN customers :
    customers[j].parentId = customers[i].id => ~Truthy(customers[i].parentId)

\* C1 witness: an update has just made a DIRECT customer of a record that is
\* still the parent of another, the ids of the stored records all differing.
C1_Witness ==
  /\ lastOp.op = "update"
  /\ lastOp.data.type = DIRECT
  /\ \A i, j \in DOMAIN customers : i # j => customers[i].id # customers[j].id
  /\ \E i, j \in DOMAIN customers :
       /\ customers[i].id = lastOp.id
       /\ Truthy(customers[i].parentId)
       /\ customers[j].parentId = lastOp.id

\* C2. Account-number uniqueness: no two distinct customers have the same
\* accountNumber.
C2_AccountNumberUnique ==
  \A i, j \in DOMAIN customers :
    i # j => customers[i].accountNumber # customers[j].accountNumber

\* C2 witness: an update has just written one account number into two records
\* that the import committed under one id.
C2_Witness ==
  /\ lastOp.op = "update"
  /\ \E i, j \in DOMAIN customers :
       /\ i # j
       /\ customers[i].id = lastOp.id /\ customers[j].id = lastOp.id
       /\ customers[i].accountNumber = customers[j].accountNumber
       /\ lastOp.pre[i].accountNumber # lastOp.pre[j].accountNumber

\* C3. Primary invariants: every stored customer has exactly one primary address,
\* exactly one billing address and exactly one primary contact.
C3_PrimaryInvariants ==
  \A i \in DOMAIN customers :
    /\ Count(customers[i].addresses, LAMBDA a : a.isPrimary) = 1
    /\ Count(customers[i].addresses, LAMBDA a : a.isBilling) = 1
    /\ Count(customers[i].contacts, LAMBDA c : c.isPrimary) = 1

\* C3 witness: after an import commit the customers hold an earlier record saved
\* from the form and a record accepted by the resolver with two contacts.
C3_Witness ==
  /\ lastOp.op = "batchAdd"
  /\ \E i \in DOMAIN lastOp.pre : lastOp.pre[i].id = CustId(lastOp.pre[i].createdAt)
  /\ \E i \in DOMAIN lastOp.added : Len(lastOp.added[i].contacts) = 2
  /\ C3_PrimaryInvariants

\* C4. A customer with type PARENT has no non-null parentId.
C4_ParentHasNoParent ==
  \A i \in DOMAIN customers :
    customers[i].type = PARENT => ~Truthy(customers[i].parentId)

\* C4 witness: an update or a delete has just unlinked a child, which is now a
\* PARENT without parentId.
C4_Witness ==
  /\ lastOp.op \in {"update", "delete"}
  /\ \E i \in DOMAIN lastOp.pre :
       /\ lastOp.pre[i].parentId = lastOp.id
       /\ lastOp.pre[i].type = DIRECT
       /\ \E j \in DOMAIN customers :
            /\ customers[j].id = lastOp.pre[i].id
            /\ customers[j].type = PARENT
            /\ ~Truthy(customers[j].parentId)

\* The last step deleted a customer stored as a PARENT.
DeletedParent ==
  /\ lastOp.op = "delete"
  /\ Find(lastOp.pre, lastOp.id).type = PARENT

\* The children of the deleted id are stored as PARENTs without parentId, and the
\* id is gone.
CascadeDone ==
  /\ \A i \in DOMAIN lastOp.pre :
       lastOp.pre[i].parentId = lastOp.id =>
         \E j \in DOMAIN customers : customers[j] = Unlink(lastOp.pre[i])
  /\ lastOp.id \notin Ids(customers)

\* C5. Delete cascade: after delete(id) of a customer of type PARENT every record
\* that had parentId = id is still stored, with parentId null and type PARENT, the
\* record with that id is absent, and there is exactly one record fewer.
C5_DeleteCascade ==
  DeletedParent => CascadeDone /\ Len(customers) = Len(lastOp.pre) - 1

\* C5 witness: the delete of a PARENT has removed two records stored under its id.
C5_Witness ==
  /\ DeletedParent
  /\ CascadeDone
  /\ Len(customers) = Len(lastOp.pre) - 2

\* The type and parentId of every record.
Linkage(custs) == [i \in DOMAIN custs |-> <<custs[i].id, custs[i].type, custs[i].parentId>>]

\* Candidates of both types, with no parent or with a stored one.
Candidates ==
  {[SubmittedForm(Content("Acme", "A1", <<GoodAddress>>, <<GoodContact>>), p)
      EXCEPT !.type = ty] :
     p \in {Null} \cup Ids(customers), ty \in {PARENT, DIRECT}}

\* C6. Relink idempotence: update(id, candidate, childIdsToLink) applied twice
\* gives the same type and parentId for every record as applied once, for the id
\* of a stored record or of none.
C6_RelinkIdempotence ==
  \A id \in Ids(customers) \cup {CustId(0)}, data \in Candidates,
     childIdsToLink \in SUBSET Ids(customers) :
    LET once == updateCustomer(customers, id, data, childIdsToLink)
    IN Linkage(updateCustomer(once, id, data, childIdsToLink)) = Linkage(once)

\* C6 witness: the last step was an update of a PARENT that unlinked one child and
\* kept or linked another, and applying it again changes nothing.
C6_Witness ==
  /\ lastOp.op = "update"
  /\ lastOp.data.type = PARENT
  /\ lastOp.childIds # {}
  /\ \E i \in DOMAIN lastOp.pre :
       lastOp.pre[i].parentId = lastOp.id /\ lastOp.pre[i].id \notin lastOp.childIds
  /\ updateCustomer(customers, lastOp.id, lastOp.data, lastOp.childIds) = customers

\* ------------------------------------------------------------------ claims on the import resolver
\* The import view shows the result of a run over the chosen file.
Processed == currentView = "IMPORT" /\ processedData.present

ParsedRows == processFile(file)

AcceptedFor(acc) == Filter(processedData.validCustomers, LAMBDA c : c.accountNumber = acc)

EntriesFor(rowNumber) == Filter(processedData.errors, LAMBDA e : e.rowNumber = rowNumber)

\* The reason's text holds s: the interpolated reasons hold their argument
\* between quotes, and no fixed wording holds an account number of the model.
Contains(reason, s) ==
  \/ s = ""
  \/ /\ reason.kind \in {"DuplicateAccountDifferentNames", "AccountExists", "ParentNotFound"}
     /\ reason.arg = s

\* The checks of a group other than the resolution of its parent and of its
\* primary contact, as section 4.3 of the specification lists them.
OtherwiseValid(custs, g) ==
  /\ Truthy(g[1].customerName)
  /\ \A i \in DOMAIN g : g[i].customerName = g[1].customerName
  /\ \A k \in DOMAIN custs : custs[k].accountNumber # g[1].accountNumber
  /\ \A i \in DOMAIN g : Truthy(g[i].contactName) /\ Truthy(g[i].contactEmail)

OnePrimary(g) == Len(g) > 1 => Count(g, LAMBDA r : r.isPrimary) = 1

\* C7. Import row accounting: every parsed row is a contact of exactly one
\* accepted customer or has exactly one rejection entry, never both and never
\* neither, and the entries of the rows of a rejected group carry one reason.
C7_ImportRowAccounting ==
  Processed =>
    /\ \A i \in DOMAIN ParsedRows :
         /\ Len(AcceptedFor(ParsedRows[i].accountNumber))
              + Len(EntriesFor(ParsedRows[i].rowNumber)) = 1
         /\ \A k \in DOMAIN AcceptedFor(ParsedRows[i].accountNumber) :
              Len(AcceptedFor(ParsedRows[i].accountNumber)[k].contacts)
                = Len(GroupRows(ParsedRows, ParsedRows[i].accountNumber))
    /\ \A i, j \in DOMAIN ParsedRows :
         ParsedRows[i].accountNumber = ParsedRows[j].accountNumber =>
           \A e1 \in Range(EntriesFor(ParsedRows[i].rowNumber)),
              e2 \in Range(EntriesFor(ParsedRows[j].rowNumber)) : e1.reason = e2.reason

\* C7 witness: a processed file with a group of two rows of which only one
\* lacks a contact name or email; the other row is neither accepted nor rejected.
C7_Witness ==
  /\ Processed
  /\ \E i, j \in DOMAIN ParsedRows :
       /\ i # j
       /\ ParsedRows[i].accountNumber = ParsedRows[j].accountNumber
       /\ ~Truthy(ParsedRows[i].contactName)
       /\ Truthy(ParsedRows[j].contactName) /\ Truthy(ParsedRows[j].contactEmail)
       /\ EntriesFor(ParsedRows[j].rowNumber) = << >>
       /\ AcceptedFor(ParsedRows[j].accountNumber) = << >>

\* C8 as stated: every row whose accountNumber is that of a stored customer has a
\* rejection entry whose reason contains that account number, and no accepted
\* customer has that accountNumber.
C8_AsStated ==
  Processed =>
    \A i \in DOMAIN ParsedRows :
      (\E k \in DOMAIN customers : customers[k].accountNumber = ParsedRows[i].accountNumber) =>
        /\ \E e \in Range(EntriesFor(ParsedRows[i].rowNumber)) :
             Contains(e.reason, ParsedRows[i].accountNumber)
        /\ AcceptedFor(ParsedRows[i].accountNumber) = << >>

\* C8. Import duplicate rejection: every row whose accountNumber is that of a
\* stored customer has exactly one rejection entry and no accepted customer has
\* that accountNumber; the reason contains the account number when the first row
\* of the row's group has a customer name, and is the missing-name reason otherwise.
C8_ImportDuplicateRejection ==
  Processed =>
    \A i \in DOMAIN ParsedRows :
      (\E k \in DOMAIN customers : customers[k].accountNumber = ParsedRows[i].accountNumber) =>
        LET firstRow == GroupRows(ParsedRows, ParsedRows[i].accountNumber)[1]
            entries == EntriesFor(ParsedRows[i].rowNumber)
        IN /\ Len(entries) = 1
           /\ AcceptedFor(ParsedRows[i].accountNumber) = << >>
           /\ IF Truthy(firstRow.customerName)
              THEN Contains(entries[1].reason, ParsedRows[i].accountNumber)
              ELSE entries[1].reason.kind = "MissingCustomerName"

\* C8 witness: a processed file with a group on a stored account number whose
\* rows are otherwise acceptable, rejected for the account number, and a group on
\* the same stored population that is accepted.
C8_Witness ==
  /\ Processed
  /\ processedData.validCustomers # << >>
  /\ \E i \in DOMAIN ParsedRows :
       /\ \E k \in DOMAIN customers : customers[k].accountNumber = ParsedRows[i].accountNumber
       /\ Truthy(ParsedRows[i].customerName)
       /\ Truthy(ParsedRows[i].contactName)
       /\ \E e \in Range(EntriesFor(ParsedRows[i].rowNumber)) :
            e.reason = [kind |-> "AccountExists", arg |-> ParsedRows[i].accountNumber]

\* A DIRECT group d placed before the PARENT group p that it names.
ForwardReference(d, p) ==
  /\ Truthy(d[1].parentCustomerName)
  /\ ~Truthy(p[1].parentCustomerName)
  /\ ToLowerCase(d[1].parentCustomerName) = ToLowerCase(p[1].customerName)
  /\ \A i \in DOMAIN d, j \in DOMAIN p : d[i].rowNumber < p[j].rowNumber
  /\ OtherwiseValid(customers, d) /\ OnePrimary(d)
  /\ OtherwiseValid(customers, p) /\ OnePrimary(p)

ResolvedTo(d, p) ==
  LET cd == AcceptedFor(d[1].accountNumber)
      cp == AcceptedFor(p[1].accountNumber)
  IN /\ Len(cd) = 1 /\ Len(cp) = 1
     /\ cd[1].type = DIRECT /\ cp[1].type = PARENT
     /\ Truthy(cd[1].parentId)
     /\ cd[1].parentId = cp[1].id

\* C9. Import forward reference: when the rows of a DIRECT group come before the
\* rows of the PARENT group of the same file that its parentCustomerName names,
\* and both groups are otherwise valid, both are accepted and the parentId of the
\* DIRECT customer is the id of the accepted PARENT customer.
C9_ImportForwardReference ==
  Processed =>
    \A accD, accP \in Range(GroupKeys(ParsedRows)) :
      LET d == GroupRows(ParsedRows, accD)
          p == GroupRows(ParsedRows, accP)
      IN ForwardReference(d, p) => ResolvedTo(d, p)

\* C9 witness: a processed file whose DIRECT group comes first and names a PARENT
\* that only the file holds; both were accepted and linked.
C9_Witness ==
  /\ Processed
  /\ customers = << >>
  /\ \E accD, accP \in Range(GroupKeys(ParsedRows)) :
       /\ ForwardReference(GroupRows(ParsedRows, accD), GroupRows(ParsedRows, accP))
       /\ ResolvedTo(GroupRows(ParsedRows, accD), GroupRows(ParsedRows, accP))

\* The row of line k of the file stands alone in its group.
SingleRowGroup(k) ==
  /\ file[k].cols >= 7
  /\ \A j \in DOMAIN file :
       (j # k /\ file[j].cols >= 7) => file[j].accountNumber # file[k].accountNumber

\* The parent named by row r is a stored PARENT or a named PARENT group of the file.
ParentResolves(r) ==
  \/ ~Truthy(r.parentCustomerName)
  \/ \E k \in DOMAIN customers :
       /\ customers[k].type = PARENT
       /\ ToLowerCase(customers[k].name) = ToLowerCase(r.parentCustomerName)
  \/ \E acc \in Range(GroupKeys(ParsedRows)) :
       LET p == GroupRows(ParsedRows, acc)
       IN /\ ~Truthy(p[1].parentCustomerName)
          /\ Truthy(p[1].customerName)
          /\ ToLowerCase(p[1].customerName) = ToLowerCase(r.parentCustomerName)

Flipped(k) == [file EXCEPT ![k].isPrimary = ~file[k].isPrimary]

\* C10. Import single-contact auto-primary: a group of exactly one row that passes
\* the other group checks is accepted with that contact primary, and the result
\* of the run is the same whatever the row's isPrimary value.
C10_ImportSingleContactPrimary ==
  Processed =>
    \A k \in DOMAIN file :
      SingleRowGroup(k) =>
        /\ Resolve(customers, Flipped(k)) =
             [validCustomers |-> processedData.validCustomers,
              errors |-> processedData.errors]
        /\ (OtherwiseValid(customers, <<file[k]>>) /\ ParentResolves(file[k])) =>
             LET c == AcceptedFor(file[k].accountNumber)
             IN /\ Len(c) = 1
                /\ Len(c[1].contacts) = 1
                /\ c[1].contacts[1].isPrimary
                /\ c[1].contacts[1].name = file[k].contactName

\* C10 witness: a processed file with a single-row group whose row has isPrimary
\* false, accepted with its contact primary.
C10_Witness ==
  /\ Processed
  /\ \E k \in DOMAIN file :
       /\ SingleRowGroup(k)
       /\ ~file[k].isPrimary
       /\ OtherwiseValid(customers, <<file[k]>>) /\ ParentResolves(file[k])
       /\ Len(AcceptedFor(file[k].accountNumber)) = 1
       /\ AcceptedFor(file[k].accountNumber)[1].contacts[1].isPrimary

\* The groups of the processed file, each the sequence of its rows.
Groups == {GroupRows(ParsedRows, acc) : acc \in Range(GroupKeys(ParsedRows))}

PrimaryRows(g) == Count(g, LAMBDA r : r.isPrimary)

\* Every row of g has exactly one rejection entry, with a reason of this kind.
RejectedFor(g, kind) ==
  \A i \in DOMAIN g :
    /\ Len(EntriesFor(g[i].rowNumber)) = 1
    /\ EntriesFor(g[i].rowNumber)[1].reason.kind = kind

\* C11 as stated: a group of two or more rows with more than one flagged primary
\* has no accepted customer and an entry with the multiple-primary reason for
\* every row; with none flagged primary it has no accepted customer and an entry
\* for every row.
C11_AsStated ==
  Processed =>
    \A g \in Groups :
      /\ (Len(g) >= 2 /\ PrimaryRows(g) > 1) =>
           /\ AcceptedFor(g[1].accountNumber) = << >>
           /\ \A i \in DOMAIN g :
                \E e \in Range(EntriesFor(g[i].rowNumber)) :
                  e.reason.kind = "MultiplePrimaryContacts"
      /\ (Len(g) >= 2 /\ PrimaryRows(g) = 0) =>
           /\ AcceptedFor(g[1].accountNumber) = << >>
           /\ \A i \in DOMAIN g : EntriesFor(g[i].rowNumber) # << >>

\* C11. Multi-contact primary conflict: a group of two or more rows of which more
\* than one, or none, is flagged primary has no accepted customer; when the group
\* passes the earlier checks (customer name, one name, account number not stored,
\* contact name and email in every row) each of its rows has exactly one entry,
\* with the multiple-primary reason or with the none-primary reason.
C11_ImportPrimaryConflict ==
  Processed =>
    \A g \in Groups :
      (Len(g) >= 2 /\ PrimaryRows(g) # 1) =>
        /\ AcceptedFor(g[1].accountNumber) = << >>
        /\ OtherwiseValid(customers, g) =>
             IF PrimaryRows(g) > 1
             THEN RejectedFor(g, "MultiplePrimaryContacts")
             ELSE RejectedFor(g, "NoPrimaryContact")

\* C11 witness: a processed file whose two rows form one group that passes the
\* earlier checks, both flagged primary, rejected row by row for it.
C11_Witness ==
  /\ Processed
  /\ \E g \in Groups :
       /\ Len(g) = 2
       /\ PrimaryRows(g) = 2
       /\ OtherwiseValid(customers, g)
       /\ RejectedFor(g, "MultiplePrimaryContacts")

\* C12. Import uniqueness: no two customers of the accepted list share an
\* accountNumber, and no accepted customer has the accountNumber of a customer
\* of the list the file was resolved against.
C12_ImportAcceptedUnique ==
  Processed =>
    /\ \A i, j \in DOMAIN processedData.validCustomers :
         i # j => processedData.validCustomers[i].accountNumber
                    # processedData.validCustomers[j].accountNumber
    /\ \A i \in DOMAIN processedData.validCustomers, k \in DOMAIN customers :
         processedData.validCustomers[i].accountNumber # customers[k].accountNumber

\* C12 witness: a processed file resolved against a stored customer, with two
\* accepted customers.
C12_Witness ==
  /\ Processed
  /\ customers # << >>
  /\ Len(processedData.validCustomers) = 2
  /\ C12_ImportAcceptedUnique

\* C13. Fresh ids: after any sequence of creates, every customer inserted by
\* create has an id different from the id of every other stored customer.
C13_CreateFreshId ==
  \A i, j \in DOMAIN customers : i # j => customers[i].id # customers[j].id

\* C13 witness: a create has just stored a second customer under the id of an
\* earlier one, their account numbers differing.
C13_Witness ==
  /\ lastOp.op = "create"
  /\ \E i, j \in DOMAIN customers :
       /\ i < j
       /\ j = Len(customers)
       /\ customers[j].id = lastOp.id
       /\ customers[i].id = lastOp.id
       /\ customers[i].accountNumber # customers[j].accountNumber

\* C14. Atomicity on validation failure: while the form is mounted, a step taken
\* when validate returns errors for the candidate leaves the customers as they
\* are, and a step that changes them when validate returns none replaces them by
\* the result of the one update (or create) with all its relinking.
C14_SubmitAtomic ==
  [][InForm =>
       IF Len(validateCustomer(customers, formData, InitialId)) > 0
       THEN customers' = customers
       ELSE \/ customers' = customers
            \/ /\ currentView = "EDIT"
               /\ customers' = updateCustomer(customers, selectedCustomerId, formData,
                                              linkedChildIds)
            \/ /\ currentView = "CREATE"
               /\ customers' = addCustomer(customers, formData, linkedChildIds, now)]_vars

\* C14 witness: the form shows the errors of a failed submit of the candidate it
\* still holds, a PARENT edited with a child linked.
C14_Witness ==
  /\ currentView = "EDIT"
  /\ errors # << >>
  /\ errors = validateCustomer(customers, formData, InitialId)
  /\ linkedChildIds # {}

\* A field with something other than white space in it.
NonBlank(x) == x \notin {Undefined, "", " "}

\* The conditions of section 4.1 on a candidate.
Acceptable(custs, data, excludeId) ==
  /\ NonBlank(data.name)
  /\ NonBlank(data.accountNumber)
  /\ \A k \in DOMAIN custs :
       custs[k].id # excludeId => custs[k].accountNumber # data.accountNumber
  /\ Len(data.addresses) >= 1
  /\ Cardinality({i \in DOMAIN data.addresses : data.addresses[i].isPrimary}) = 1
  /\ Cardinality({i \in DOMAIN data.addresses : data.addresses[i].isBilling}) = 1
  /\ \A i \in DOMAIN data.addresses :
       /\ \/ NonBlank(data.addresses[i].street)
          \/ NonBlank(data.addresses[i].latitude) /\ NonBlank(data.addresses[i].longitude)
       /\ NonBlank(data.addresses[i].city)
       /\ NonBlank(data.addresses[i].state)
       /\ NonBlank(data.addresses[i].zipCode)
  /\ Len(data.contacts) >= 1
  /\ Cardinality({i \in DOMAIN data.contacts : data.contacts[i].isPrimary}) = 1
  /\ \A i \in DOMAIN data.contacts :
       /\ NonBlank(data.contacts[i].name)
       /\ NonBlank(data.contacts[i].email)
       /\ NonBlank(data.contacts[i].phone)
  /\ ~(data.type = PARENT /\ data.parentId \notin {Null, ""})

Validated == lastOp.op = "validate"

\* C15. validate returns the empty list exactly for the candidates that meet
\* every condition of section 4.1.
C15_ValidateEmptyIff ==
  Validated => ((errors = << >>) <=> Acceptable(lastOp.pre, lastOp.data, lastOp.id))

\* C15 witness: validate returned the empty list for a candidate with two
\* addresses, one located by latitude and longitude only, whose account number
\* only the excluded record has.
C15_Witness ==
  /\ Validated
  /\ errors = << >>
  /\ Len(formData.addresses) = 2
  /\ \E i \in DOMAIN formData.addresses : formData.addresses[i].street = ""
  /\ \E k \in DOMAIN customers :
       /\ customers[k].id = selectedCustomerId
       /\ customers[k].accountNumber = formData.accountNumber

\* C16. delete(id) with an id that no stored customer has leaves the customers as
\* they were.
C16_DeleteAbsentNoOp ==
  (lastOp.op = "delete" /\ lastOp.id \notin Ids(lastOp.pre)) => customers = lastOp.pre

\* C16 witness: delete was called with an id that no stored customer has while a
\* stored customer still names that id as its parent.
C16_Witness ==
  /\ lastOp.op = "delete"
  /\ lastOp.id \notin Ids(lastOp.pre)
  /\ \E k \in DOMAIN lastOp.pre : lastOp.pre[k].parentId = lastOp.id
  /\ customers = lastOp.pre

\* C17. Every stored customer has a non-empty accountNumber.
C17_AccountNumberNonEmpty ==
  \A k \in DOMAIN customers : TruthyTrim(customers[k].accountNumber)

\* C17 witness: an import stored a customer whose accountNumber is the empty string.
C17_Witness ==
  /\ lastOp.op = "batchAdd"
  /\ \E k \in DOMAIN lastOp.added : lastOp.added[k].accountNumber = ""
  /\ \E k \in DOMAIN customers : customers[k].accountNumber = ""

\* An update whose candidate is a PARENT.
ParentUpdate == lastOp.op = "update" /\ lastOp.data.type = PARENT

\* The stored customers that name id as their parent.
ChildrenOf(custs, id) == {custs[k].id : k \in {j \in DOMAIN custs : custs[j].parentId = id}}

\* C18. After update(id, candidate, childIdsToLink) with a PARENT candidate, the
\* records whose parentId is id are exactly the listed ids that are stored: a
\* former child of id that is not listed has parentId null and type PARENT, and a
\* listed record has parentId id and type DIRECT, a former child included.
C18_UpdateRelinksChildren ==
  ParentUpdate =>
    /\ ChildrenOf(customers, lastOp.id) = lastOp.childIds \cap Ids(lastOp.pre)
    /\ Len(customers) = Len(lastOp.pre)
    /\ \A k \in DOMAIN lastOp.pre :
         /\ customers[k].id = lastOp.pre[k].id
         /\ (lastOp.pre[k].parentId = lastOp.id /\ lastOp.pre[k].id \notin lastOp.childIds)
              => customers[k].parentId = Null /\ customers[k].type = PARENT
         /\ lastOp.pre[k].id \in lastOp.childIds
              => customers[k].parentId = lastOp.id /\ customers[k].type = DIRECT

\* C18 witness: one update unlinked a former child that was not listed, linked a
\* listed record that was not a child, and was given an id that is not stored.
C18_Witness ==
  /\ ParentUpdate
  /\ lastOp.id \in Ids(lastOp.pre)
  /\ \E k \in DOMAIN lastOp.pre :
       /\ lastOp.pre[k].parentId = lastOp.id
       /\ lastOp.pre[k].id \notin lastOp.childIds
       /\ customers[k].parentId = Null
  /\ \E k \in DOMAIN lastOp.pre :
       /\ lastOp.pre[k].parentId # lastOp.id
       /\ lastOp.pre[k].id \in lastOp.childIds
       /\ customers[k].parentId = lastOp.id
  /\ lastOp.childIds \ Ids(lastOp.pre) # {}

\* C18 witness, second case: a listed record that already was a child of id is
\* still its child after the update.
C18_WitnessKept ==
  /\ ParentUpdate
  /\ \E k \in DOMAIN lastOp.pre :
       /\ lastOp.pre[k].parentId = lastOp.id
       /\ lastOp.pre[k].id \in lastOp.childIds
       /\ customers[k].parentId = lastOp.id

\* A create, and the record it appended.
Created == lastOp.op = "create"

NewRecord == customers[Len(customers)]

\* C19. create(candidate, childIdsToLink) with a PARENT candidate sets type DIRECT
\* and parentId = the new id on the stored records that are listed and leaves the
\* other stored records as they were; an id that no stored record has changes
\* nothing, so the appended record is the candidate's; with a DIRECT candidate no
\* stored record changes.
C19_CreateLinksChildren ==
  Created =>
    /\ Len(customers) = Len(lastOp.pre) + 1
    /\ \A k \in DOMAIN lastOp.pre :
         customers[k] = IF lastOp.data.type = PARENT /\ lastOp.pre[k].id \in lastOp.childIds
                        THEN [lastOp.pre[k] EXCEPT !.type = DIRECT, !.parentId = lastOp.id]
                        ELSE lastOp.pre[k]
    /\ NewRecord.id = lastOp.id
    /\ NewRecord.type = lastOp.data.type
    /\ NewRecord.parentId = IF lastOp.data.type = DIRECT THEN lastOp.data.parentId
                             ELSE Undefined

\* C19 witness: a PARENT was created with a list that holds the id the create
\* assigned, which no stored record had, and the new record is stored as a DIRECT
\* customer that is its own parent.
C19_Witness ==
  /\ Created
  /\ lastOp.data.type = PARENT
  /\ lastOp.id \in lastOp.childIds
  /\ lastOp.id \notin Ids(lastOp.pre)
  /\ NewRecord.type = DIRECT
  /\ NewRecord.parentId = NewRecord.id

\* The same statement for the lists that do not hold the id the create assigns:
\* it holds for them, ids that no stored record has included.
C19_OtherLists ==
  (Created /\ lastOp.id \notin lastOp.childIds) => C19_CreateLinksChildren

\* The returned list holds message m for entry idx (0 for the candidate itself).
Reported(m, idx) == \E k \in DOMAIN errors : errors[k].msg = m /\ errors[k].idx = idx

Flagged(list, flag) == Cardinality({i \in DOMAIN list : list[i][flag]})

\* Every violated check has its message in the returned list; with emptyCounts,
\* an empty list of addresses or contacts also counts as having zero primary
\* (and zero billing) entries.
Collected(data, custs, excludeId, emptyCounts) ==
  /\ ~NonBlank(data.name) => Reported("NameRequired", 0)
  /\ ~NonBlank(data.accountNumber) => Reported("AccountNumberRequired", 0)
  /\ (\E k \in DOMAIN custs :
        custs[k].id # excludeId /\ custs[k].accountNumber = data.accountNumber)
       => Reported("AccountNumberInUse", 0)
  /\ Len(data.addresses) = 0 => Reported("AddressRequired", 0)
  /\ (emptyCounts \/ Len(data.addresses) > 0) =>
       /\ Flagged(data.addresses, "isPrimary") = 0 => Reported("PrimaryAddressMissing", 0)
       /\ Flagged(data.addresses, "isBilling") = 0 => Reported("BillingAddressMissing", 0)
  /\ Flagged(data.addresses, "isPrimary") > 1 => Reported("PrimaryAddressMultiple", 0)
  /\ Flagged(data.addresses, "isBilling") > 1 => Reported("BillingAddressMultiple", 0)
  /\ \A i \in DOMAIN data.addresses :
       LET a == data.addresses[i]
       IN /\ (~NonBlank(a.street) /\ ~(NonBlank(a.latitude) /\ NonBlank(a.longitude)))
               => Reported("AddressStreetOrLatLong", i)
          /\ ~NonBlank(a.city) => Reported("AddressCityRequired", i)
          /\ ~NonBlank(a.state) => Reported("AddressStateRequired", i)
          /\ ~NonBlank(a.zipCode) => Reported("AddressZipRequired", i)
  /\ Len(data.contacts) = 0 => Reported("ContactRequired", 0)
  /\ (emptyCounts \/ Len(data.contacts) > 0) =>
       (Flagged(data.contacts, "isPrimary") = 0 => Reported("PrimaryContactMissing", 0))
  /\ Flagged(data.contacts, "isPrimary") > 1 => Reported("PrimaryContactMultiple", 0)
  /\ \A i \in DOMAIN data.contacts :
       LET c == data.contacts[i]
       IN /\ ~NonBlank(c.name) => Reported("ContactNameRequired", i)
          /\ ~NonBlank(c.email) => Reported("ContactEmailRequired", i)
          /\ ~NonBlank(c.phone) => Reported("ContactPhoneRequired", i)
  /\ (data.type = PARENT /\ data.parentId \notin {Null, ""})
       => Reported("ParentCannotHaveParent", 0)

\* The statement as the claim words it: a candidate without addresses (contacts)
\* has zero primary and zero billing addresses (zero primary contacts), and the
\* messages of those checks are expected too.
C20_AsStated ==
  Validated => Collected(lastOp.data, lastOp.pre, lastOp.id, TRUE)

\* C20. validate reports every check the candidate violates, whatever other
\* checks fail as well; the zero-primary and zero-billing messages are reported
\* for a candidate that has at least one address (contact).
C20_ValidateCollectsAll ==
  Validated => Collected(lastOp.data, lastOp.pre, lastOp.id, FALSE)

\* C20 witness: one candidate with a blank name, two primary addresses, no billing
\* address, an address without city and no contact, and a message for each; the
\* missing primary contact is not reported apart from the missing contact.
C20_Witness ==
  /\ Validated
  /\ ~NonBlank(formData.name)
  /\ Flagged(formData.addresses, "isPrimary") > 1
  /\ Flagged(formData.addresses, "isBilling") = 0
  /\ \E i \in DOMAIN formData.addresses : formData.addresses[i].city = ""
  /\ Len(formData.contacts) = 0
  /\ Reported("NameRequired", 0)
  /\ Reported("PrimaryAddressMultiple", 0)
  /\ Reported("BillingAddressMissing", 0)
  /\ \E i \in DOMAIN formData.addresses : Reported("AddressCityRequired", i)
  /\ Reported("ContactRequired", 0)
  /\ ~Reported("PrimaryContactMissing", 0)

\* ------------------------------------------------------------------ claims on batches of three
IsParentGroup(g) == ~Truthy(g[1].parentCustomerName)

Accepted(g) == AcceptedFor(g[1].accountNumber) # << >>

\* The customer built from an accepted group.
CustomerOf(g) == AcceptedFor(g[1].accountNumber)[1]

\* A PARENT group with a name that was not accepted.
RejectedParent(g) == IsParentGroup(g) /\ Truthy(g[1].customerName) /\ ~Accepted(g)

\* d is a DIRECT group whose parent name is name up to letter case.
NamesParent(d, name) ==
  ~IsParentGroup(d) /\ ToLowerCase(d[1].parentCustomerName) = ToLowerCase(name)

\* id belongs to no accepted customer and to no stored customer.
Dangling(id) ==
  /\ \A k \in DOMAIN processedData.validCustomers : processedData.validCustomers[k].id # id
  /\ \A k \in DOMAIN customers : customers[k].id # id

\* C21 as stated: an otherwise valid DIRECT group that names a rejected PARENT
\* group of the batch is accepted with a parentId that no accepted and no stored
\* customer has.
C21_AsStated ==
  Processed =>
    \A p \in Groups, d \in Groups :
      (/\ RejectedParent(p) /\ NamesParent(d, p[1].customerName)
       /\ OtherwiseValid(customers, d) /\ OnePrimary(d))
        => Accepted(d) /\ Dangling(CustomerOf(d).parentId)

\* C21. An otherwise valid DIRECT group that names a rejected PARENT group of the
\* batch is accepted; its parentId belongs to no accepted and no stored customer
\* when no PARENT group of the batch with that name up to letter case is accepted.
C21_ImportDanglingParent ==
  Processed =>
    \A p \in Groups, d \in Groups :
      (/\ RejectedParent(p) /\ NamesParent(d, p[1].customerName)
       /\ OtherwiseValid(customers, d) /\ OnePrimary(d))
        => /\ Accepted(d)
           /\ (\A q \in Groups :
                 (IsParentGroup(q) /\ ToLowerCase(q[1].customerName) = ToLowerCase(p[1].customerName))
                   => ~Accepted(q))
                => Dangling(CustomerOf(d).parentId)

\* C21 witness: the only PARENT group of the batch is rejected because its account
\* number is stored, the stored customer is a Parent of that very name, and the
\* DIRECT group naming it is accepted with a parentId nobody has.
C21_Witness ==
  /\ Processed
  /\ \E p \in Groups, d \in Groups :
       /\ RejectedParent(p)
       /\ \E k \in DOMAIN customers :
            /\ customers[k].accountNumber = p[1].accountNumber
            /\ customers[k].name = p[1].customerName
       /\ NamesParent(d, p[1].customerName)
       /\ Accepted(d)
       /\ Truthy(CustomerOf(d).parentId)
       /\ Dangling(CustomerOf(d).parentId)

\* The outcome of the group with account number acc in a result of the resolver:
\* accepted or not, and the reasons of the entries of its rows.
Outcome(result, rows, acc) ==
  [accepted |-> Some(result.validCustomers, LAMBDA c : c.accountNumber = acc),
   reasons |-> {result.errors[k].reason :
                  k \in {j \in DOMAIN result.errors :
                           \E i \in DOMAIN rows : /\ rows[i].accountNumber = acc
                                                  /\ rows[i].rowNumber = result.errors[j].rowNumber}}]

\* The rows with the group of acc made to fail (no contact email) or made to pass
\* the contact checks (every contact named, the first one primary); names, account
\* numbers, parent names and row numbers stay.
Spoiled(rows, acc) ==
  Map(rows, LAMBDA r : IF r.accountNumber = acc THEN [r EXCEPT !.contactEmail = ""] ELSE r)

Repaired(rows, acc) ==
  Map(rows, LAMBDA r : IF r.accountNumber = acc
                       THEN [r EXCEPT !.contactName = "Ann", !.contactEmail = "ann@example.com",
                                      !.isPrimary = (r.rowNumber = GroupRows(rows, acc)[1].rowNumber)]
                       ELSE r)

Rerun(rows) ==
  analyzeRows(customers, getParents(customers), rows, RunEnv(Len(GroupKeys(rows))))

\* C22. The outcome of a group (accepted or rejected, and the reason) is the same
\* when any other group of the batch is made to fail or made to pass its contact
\* checks, and every group of the batch has an outcome.
C22_ImportGroupIndependence ==
  Processed =>
    \A g \in Groups :
      /\ Accepted(g) \/ \E i \in DOMAIN g : EntriesFor(g[i].rowNumber) # << >>
      /\ \A h \in Groups :
           h # g =>
             /\ Outcome(Rerun(Spoiled(ParsedRows, h[1].accountNumber)), ParsedRows,
                        g[1].accountNumber)
                  = Outcome(processedData, ParsedRows, g[1].accountNumber)
             /\ Outcome(Rerun(Repaired(ParsedRows, h[1].accountNumber)), ParsedRows,
                        g[1].accountNumber)
                  = Outcome(processedData, ParsedRows, g[1].accountNumber)

\* C22 witness: a DIRECT group is accepted after the rejection of the group before
\* it, it names an accepted PARENT group, and it is still accepted when that
\* PARENT group is made to fail.
C22_Witness ==
  /\ Processed
  /\ \E g \in Groups, h \in Groups, r \in Groups :
       /\ ~IsParentGroup(g) /\ Accepted(g)
       /\ IsParentGroup(h) /\ Accepted(h) /\ NamesParent(g, h[1].customerName)
       /\ ~Accepted(r) /\ r[1].rowNumber < g[1].rowNumber
       /\ ~Outcome(Rerun(Spoiled(ParsedRows, h[1].accountNumber)), ParsedRows,
                   h[1].accountNumber).accepted
       /\ Outcome(Rerun(Spoiled(ParsedRows, h[1].accountNumber)), ParsedRows,
                  g[1].accountNumber).accepted

\* An import commit, and the customers it was given.
Committed == lastOp.op = "batchAdd"

\* C23. batchAdd appends: the customers afterwards are the previous ones, each
\* unchanged and in the same order, followed by exactly the given customers.
C23_BatchAddAppends ==
  Committed =>
    /\ Len(customers) = Len(lastOp.pre) + Len(lastOp.added)
    /\ \A k \in DOMAIN lastOp.pre : customers[k] = lastOp.pre[k]
    /\ \A k \in DOMAIN lastOp.added : customers[Len(lastOp.pre) + k] = lastOp.added[k]

\* C23 witness: a commit onto stored customers of two or more customers, one of
\* which validate would have turned down.
C23_Witness ==
  /\ Committed
  /\ lastOp.pre # << >>
  /\ Len(lastOp.added) >= 2
  /\ \E k \in DOMAIN lastOp.added :
       /\ Len(validateCustomer(lastOp.pre, lastOp.added[k], Undefined)) > 0
       /\ customers[Len(lastOp.pre) + k] = lastOp.added[k]

\* C24. Resolving a batch leaves the stored customers as they are: the step that
\* produces a result changes no customer, and the customers change in the import
\* view only by the commit of a result, which appends its accepted list.
C24_ResolverOnlyClassifies ==
  [][/\ (~processedData.present /\ processedData'.present) => customers' = customers
     /\ (currentView = "IMPORT" /\ customers' # customers) =>
          /\ processedData.present
          /\ lastOp'.op = "batchAdd"
          /\ customers' = customers \o processedData.validCustomers]_vars

\* C24 witness: a result with two accepted customers is shown while the stored
\* customers are still the one Parent the view was opened on.
C24_Witness ==
  /\ Processed
  /\ Len(processedData.validCustomers) = 2
  /\ customers = <<StoredParent>>
  /\ lastOp.op = "none"

\* ------------------------------------------------------------------ claims on update and delete
Updated == lastOp.op = "update"

\* The record holds the candidate's content fields.
HoldsContent(c, data) ==
  /\ c.name = data.name
  /\ c.accountNumber = data.accountNumber
  /\ c.isVip = data.isVip
  /\ c.addresses = data.addresses
  /\ c.contacts = data.contacts

\* The update keeps the number of records and the id of each.
SameIds ==
  /\ Len(customers) = Len(lastOp.pre)
  /\ \A k \in DOMAIN lastOp.pre : customers[k].id = lastOp.pre[k].id

C26_ImportDistinctIds ==
  Processed =>
    /\ \A i, j \in DOMAIN processedData.validCustomers :
         i # j => processedData.validCustomers[i].id # processedData.validCustomers[j].id
    /\ \A i \in DOMAIN processedData.validCustomers, k \in DOMAIN customers :
         processedData.validCustomers[i].id # customers[k].id

\* C26 witness: two PARENT groups with different account numbers, named Acme and
\* ACME, are both accepted under one id.
C26_Witness ==
  /\ Processed
  /\ \E i, j \in DOMAIN processedData.validCustomers :
       /\ i # j
       /\ processedData.validCustomers[i].type = PARENT
       /\ processedData.validCustomers[j].type = PARENT
       /\ processedData.validCustomers[i].name = "Acme"
       /\ processedData.validCustomers[j].name = "ACME"
       /\ processedData.validCustomers[i].accountNumber
            # processedData.validCustomers[j].accountNumber
       /\ processedData.validCustomers[i].id = processedData.validCustomers[j].id

\* C27. After delete(id) of a stored customer no remaining record has parentId = id.
C27_DeleteLeavesNoChild ==
  (lastOp.op = "delete" /\ lastOp.id \in Ids(lastOp.pre)) =>
    \A k \in DOMAIN customers : customers[k].parentId # lastOp.id

\* C27 witness: the deleted customer was stored as DIRECT, another customer named
\* it as parent, and that customer still does after the delete.
C27_Witness ==
  /\ lastOp.op = "delete"
  /\ \E i \in DOMAIN lastOp.pre :
       /\ lastOp.pre[i].id = lastOp.id
       /\ lastOp.pre[i].type = DIRECT
  /\ \A i, j \in DOMAIN lastOp.pre : i # j => lastOp.pre[i].id # lastOp.pre[j].id
  /\ \E k \in DOMAIN customers : customers[k].parentId = lastOp.id
  /\ \A k \in DOMAIN customers : customers[k].id # lastOp.id

\* C28. Every accepted customer of a result passes validate against the stored
\* customers the batch was resolved against.
C28_ImportAcceptedValidate ==
  Processed =>
    \A k \in DOMAIN processedData.validCustomers :
      validateCustomer(customers, processedData.validCustomers[k], Undefined) = << >>

\* C28 witness: a customer is accepted whose only contact has no phone, and
\* validate answers that the contact's phone is required.
C28_Witness ==
  /\ Processed
  /\ \E k \in DOMAIN processedData.validCustomers :
       /\ Len(processedData.validCustomers[k].contacts) = 1
       /\ processedData.validCustomers[k].contacts[1].phone = ""
       /\ validateCustomer(customers, processedData.validCustomers[k], Undefined)
            = <<Msg("ContactPhoneRequired", 1, "")>>

\* The ids of the stored Parents whose name is name up to letter case.
StoredParentIds(name) ==
  {customers[k].id : k \in {j \in DOMAIN customers :
                              /\ customers[j].type = PARENT
                              /\ ToLowerCase(customers[j].name) = ToLowerCase(name)}}

\* A PARENT group of the batch carries this name up to letter case.
BatchParentNamed(name) ==
  \E q \in Groups : /\ IsParentGroup(q) /\ Truthy(q[1].customerName)
                    /\ ToLowerCase(q[1].customerName) = ToLowerCase(name)

\* C29 as stated: an otherwise valid DIRECT group that names a stored Parent up to
\* letter case is accepted with that Parent's id as parentId, whatever the batch
\* holds besides.
C29_AsStated ==
  Processed =>
    \A d \in Groups :
      (/\ ~IsParentGroup(d) /\ StoredParentIds(d[1].parentCustomerName) # {}
       /\ OtherwiseValid(customers, d) /\ OnePrimary(d))
        => Accepted(d) /\ CustomerOf(d).parentId \in StoredParentIds(d[1].parentCustomerName)

\* C29. An otherwise valid DIRECT group that names a stored Parent up to letter
\* case is accepted; its parentId is that Parent's id when no PARENT group of the
\* batch carries the same name up to letter case.
C29_ImportExistingParent ==
  Processed =>
    \A d \in Groups :
      (/\ ~IsParentGroup(d) /\ StoredParentIds(d[1].parentCustomerName) # {}
       /\ OtherwiseValid(customers, d) /\ OnePrimary(d))
        => /\ Accepted(d)
           /\ ~BatchParentNamed(d[1].parentCustomerName)
                => CustomerOf(d).parentId \in StoredParentIds(d[1].parentCustomerName)

\* C29 witness: in a batch of three groups a DIRECT group that names ACME is
\* accepted under the stored Parent Acme.
C29_Witness ==
  /\ Processed
  /\ Cardinality(Groups) = 3
  /\ \E d \in Groups :
       /\ ~IsParentGroup(d)
       /\ Accepted(d)
       /\ ~BatchParentNamed(d[1].parentCustomerName)
       /\ d[1].parentCustomerName = "ACME"
       /\ CustomerOf(d).parentId = StoredParent.id
       /\ customers = <<StoredParent>>

\* C30. No stored customer has parentId equal to its own id.
C30_NoSelfParent ==
  \A k \in DOMAIN customers : customers[k].parentId # customers[k].id

\* C30 witness: a create from the form, with a stored customer chosen as child,
\* read the millisecond that customer's id was made of, and the new record is a
\* DIRECT customer that names itself as parent.
C30_Witness ==
  /\ Created
  /\ lastOp.data.type = PARENT
  /\ lastOp.childIds \subseteq Ids(lastOp.pre)
  /\ lastOp.id \in lastOp.childIds
  /\ NewRecord.id = lastOp.id
  /\ NewRecord.parentId = NewRecord.id

====
